---- MODULE Spec2Model ----
(***************************************************************************)
(* Model of the Qdrant collection manager (qdrant_collection_manager.py):  *)
(* the interactive menu loop of QdrantCollectionManager.run, its prompts,  *)
(* the selection parser and the remote calls it makes.                     *)
(*                                                                         *)
(* Text typed by the user is a sequence of one-character strings, so that  *)
(* strip(), lower(), split(',') and int() are modelled by what they do.    *)
(***************************************************************************)
EXTENDS Integers, Sequences, FiniteSets, TLC

\* ------------------------------------------------------------------ bounds

\* Number of collection names the remote service can hold.
MaxCollections == 3
\* Longest line given to the selection parser on its own, in comma-separated
\* tokens.
MaxTokens == 3
\* Longest line typed at the selection prompt of the menu loop, in tokens.
MaxTypedTokens == 2
\* Number of list fetches one create action may make at the name prompt.
MaxNameTries == 2

\* ------------------------------------------------------- program constants

\* vector_size = 1536 when the size prompt is left empty.
DefaultVectorSize == 1536
\* sizes above 65536 need an extra confirmation.
LargeVectorSize == 65536

\* -------------------------------------------------------------------- text

Digits == <<"0", "1", "2", "3", "4", "5", "6", "7", "8", "9">>

IsDigit(c) == \E k \in 1..10 : Digits[k] = c

DigitVal(c) == (CHOOSE k \in 1..10 : Digits[k] = c) - 1

\* The decimal text of a natural number (how a user types it).
RECURSIVE IntText(_)
IntText(n) == IF n < 10 THEN <<Digits[n + 1]>>
              ELSE IntText(n \div 10) \o <<Digits[(n % 10) + 1]>>

\* str.strip(): leading and trailing blanks removed.
RECURSIVE LStrip(_)
LStrip(s) == IF s # <<>> /\ Head(s) = " " THEN LStrip(Tail(s)) ELSE s

RECURSIVE RStrip(_)
RStrip(s) == IF s # <<>> /\ s[Len(s)] = " "
             THEN RStrip(SubSeq(s, 1, Len(s) - 1)) ELSE s

Strip(s) == RStrip(LStrip(s))

\* str.lower() on the letters the prompts compare against.
LowerChar(c) == CASE c = "A" -> "a" [] c = "L" -> "l" [] c = "N" -> "n"
                  [] c = "O" -> "o" [] c = "Q" -> "q" [] c = "S" -> "s"
                  [] c = "Y" -> "y" [] c = "E" -> "e" [] c = "I" -> "i"
                  [] OTHER -> c

Lower(s) == [k \in 1..Len(s) |-> LowerChar(s[k])]

\* str.split(','): the empty text splits into one empty token.
RECURSIVE SplitComma(_, _)
SplitComma(s, cur) ==
    IF s = <<>> THEN <<cur>>
    ELSE IF Head(s) = "," THEN <<cur>> \o SplitComma(Tail(s), <<>>)
    ELSE SplitComma(Tail(s), Append(cur, Head(s)))

RECURSIVE DigitsValue(_, _)
DigitsValue(s, acc) ==
    IF s = <<>> THEN acc ELSE DigitsValue(Tail(s), 10 * acc + DigitVal(Head(s)))

AllDigits(s) == s # <<>> /\ \A k \in 1..Len(s) : IsDigit(s[k])

\* int(text): surrounding blanks ignored, an optional sign, then digits;
\* anything else raises ValueError.
ParseInt(text) ==
    LET t == Strip(text)
        signed == t # <<>> /\ Head(t) \in {"-", "+"}
        body == IF signed THEN Tail(t) ELSE t
    IN  IF AllDigits(body)
        THEN [ok |-> TRUE,
              val |-> IF signed /\ Head(t) = "-" THEN 0 - DigitsValue(body, 0)
                      ELSE DigitsValue(body, 0)]
        ELSE [ok |-> FALSE, val |-> 0]

RECURSIVE JoinComma(_)
JoinComma(toks) ==
    IF Len(toks) = 0 THEN <<>>
    ELSE IF Len(toks) = 1 THEN toks[1]
    ELSE toks[1] \o <<",">> \o JoinComma(Tail(toks))

\* ------------------------------------------------------------ collections

\* The names a collection can have: "c1", "c2", ...
NameOf(k) == <<"c", Digits[k + 1]>>

Names == {NameOf(k) : k \in 1..MaxCollections}

\* How the vectors_count field of an entry can come back from the service:
\* left out, null, or a number.
FieldKinds == {"absent", "null", "int"}

\* The result.collections array of GET /collections for the set S of stored
\* names: one entry per name, each with the vectors_count field as `vc`.
RECURSIVE ListingFrom(_, _, _)
ListingFrom(k, S, vc) ==
    IF k > MaxCollections THEN <<>>
    ELSE (IF NameOf(k) \in S
          THEN <<[name |-> NameOf(k), vectors_count |-> vc]>> ELSE <<>>)
         \o ListingFrom(k + 1, S, vc)

\* [col['name'] for col in collections]
NamesOf(collections) == [k \in 1..Len(collections) |-> collections[k].name]

InSeq(x, s) == \E k \in 1..Len(s) : s[k] = x

\* ------------------------------------------------------- selection parser

QuitWords == {<<"q">>, <<"q", "u", "i", "t">>, <<"e", "x", "i", "t">>}

AllWords == {<<"a", "l", "l">>, <<"*">>, <<"t", "o", "d", "a", "s">>}

\* if collection_name not in selected_collections: append
AddSelectedKeepDuplicates(selected_collections, collection_name) ==
    Append(selected_collections, collection_name)

AddSelected(selected_collections, collection_name) ==
    IF InSeq(collection_name, selected_collections)
    THEN selected_collections
    ELSE Append(selected_collections, collection_name)

\* collections[num-1]['name'] (Python indexes from 0, a sequence from 1)
NameAtByNumber(collections, num) == NameOf(num)

NameAt(collections, num) == collections[num].name

\* The for loop over the tokens: a token that is no number, or a number
\* outside 1..len(collections), ends the loop with None.
RECURSIVE SelectByNumbersSkipInvalid(_, _, _)
SelectByNumbersSkipInvalid(collections, numbers, selected_collections) ==
    IF numbers = <<>> THEN [none |-> FALSE, names |-> selected_collections]
    ELSE LET num == ParseInt(Head(numbers))
         IN  IF num.ok /\ 1 <= num.val /\ num.val <= Len(collections)
             THEN SelectByNumbersSkipInvalid(collections, Tail(numbers),
                      AddSelected(selected_collections, NameAt(collections, num.val)))
             ELSE SelectByNumbersSkipInvalid(collections, Tail(numbers),
                      selected_collections)

RECURSIVE SelectByNumbers(_, _, _)
SelectByNumbers(collections, numbers, selected_collections) ==
    IF numbers = <<>> THEN [none |-> FALSE, names |-> selected_collections]
    ELSE LET num == ParseInt(Head(numbers))
         IN  IF ~num.ok THEN [none |-> TRUE, names |-> <<>>]
             ELSE IF 1 <= num.val /\ num.val <= Len(collections)
             THEN SelectByNumbers(collections, Tail(numbers),
                      AddSelected(selected_collections, NameAt(collections, num.val)))
             ELSE [none |-> TRUE, names |-> <<>>]

\* if action == "borrar" and selection.lower() in ['all', '*', 'todas']
SelectsAllAnyAction(action, selection) == Lower(selection) \in AllWords

SelectsAll(action, selection) ==
    action = "borrar" /\ Lower(selection) \in AllWords

\* One pass of the while loop of get_user_selection on the text `raw`:
\* "continue" asks again, "return" leaves with None or with the names.
GetUserSelection(collections, action, raw) ==
    LET selection == Strip(raw)
    IN  IF selection = <<>>
        THEN [kind |-> "continue", none |-> TRUE, names |-> <<>>]
        ELSE IF Lower(selection) \in QuitWords
        THEN [kind |-> "return", none |-> TRUE, names |-> <<>>]
        ELSE IF SelectsAll(action, selection)
        THEN [kind |-> "return", none |-> FALSE, names |-> NamesOf(collections)]
        ELSE LET parts == SplitComma(selection, <<>>)
                 numbers == [k \in 1..Len(parts) |-> Strip(parts[k])]
                 r == SelectByNumbers(collections, numbers, <<>>)
             IN  IF r.none THEN [kind |-> "return", none |-> TRUE, names |-> <<>>]
                 ELSE IF r.names # <<>>
                 THEN [kind |-> "return", none |-> FALSE, names |-> r.names]
                 ELSE [kind |-> "continue", none |-> TRUE, names |-> <<>>]

\* ------------------------------------------------------------ remote calls

\* What one HTTP call can come back with: the success answer, a non-success
\* status, a body that reports an error, an undecodable body, a timeout, a
\* refused connection, or a success answer whose result is null.
Responses == {"ok", "http_error", "error_body", "bad_json", "timeout",
              "conn_error", "null_result"}

\* get_collections: the listing on HTTP 200 with status ok, None (with an
\* error printed) otherwise; a null result raises inside the try and is caught.
GetCollections(resp, stored, vc) ==
    IF resp = "ok"
    THEN [none |-> FALSE, list |-> ListingFrom(1, stored, vc), printed |-> {}]
    ELSE [none |-> TRUE, list |-> <<>>, printed |-> {"error_get_collections"}]

\* display_collections: the empty-state line for an empty listing, else one
\* table row per entry; formatting a null vectors_count with a width raises
\* TypeError, which nothing in display_collections catches.
DisplayCollectionsAlwaysTable(collections) ==
    IF \E k \in 1..Len(collections) : collections[k].vectors_count = "null"
    THEN [raised |-> TRUE, printed |-> {}]
    ELSE [raised |-> FALSE, printed |-> {"table"}]

DisplayCollections(collections) ==
    IF collections = <<>>
    THEN [raised |-> FALSE, printed |-> {"empty_state"}]
    ELSE IF \E k \in 1..Len(collections) : collections[k].vectors_count = "null"
    THEN [raised |-> TRUE, printed |-> {}]
    ELSE [raised |-> FALSE, printed |-> {"table"}]

\* What requests.delete can come back with: an exception (a timeout, a
\* refused connection), or a response with a status code and a body that is
\* undecodable or a JSON object whose result field is true, false, null, the
\* number 1, or left out.
DeleteAnswers ==
    {[raised |-> r, status_code |-> 0, json |-> FALSE, result |-> "absent"] :
        r \in {"timeout", "conn_error"}}
    \cup {[raised |-> "", status_code |-> 200, json |-> FALSE, result |-> "absent"]}
    \cup {[raised |-> "", status_code |-> 200, json |-> TRUE, result |-> x] :
             x \in {"true", "false", "null", "1", "absent"}}
    \cup {[raised |-> "", status_code |-> c, json |-> TRUE, result |-> x] :
             c \in {404, 500}, x \in {"true", "absent"}}

\* delete_collection: True only for HTTP 200 with a body whose result is
\* True itself; every other answer, and every exception (response.json()
\* raising included), prints an error and gives False.
DeleteCollectionTruthyResult(response) ==
    /\ response.raised = "" /\ response.status_code = 200 /\ response.json
    /\ response.result \in {"true", "1"}

DeleteCollection(response) ==
    IF response.raised # "" THEN FALSE
    ELSE IF response.status_code = 200
    THEN IF ~response.json THEN FALSE
         ELSE response.result = "true"
    ELSE FALSE

\* The service answers 200 with result true exactly when it dropped the
\* collection.
Acknowledged(response) ==
    response = [raised |-> "", status_code |-> 200, json |-> TRUE,
                result |-> "true"]

\* create_collection: True only for HTTP 200/201 with result true.
CreateCollection(resp) == resp = "ok"

\* get_collection_info: the result object on HTTP 200 with status ok, else
\* None; nothing is printed on failure.  `fields` says how the numeric fields
\* of the result come back.
GetCollectionInfo(resp, fields) ==
    IF resp = "ok" THEN [none |-> FALSE, vectors_count |-> fields]
    ELSE [none |-> TRUE, vectors_count |-> "absent"]

\* The body of the detail loop for one name: the detail lines, or the
\* per-item error line when info is None; formatting a null vectors_count
\* with a thousands separator raises TypeError.
ShowDetails(info) ==
    IF info.none THEN [raised |-> FALSE, printed |-> {"error_no_info"}]
    ELSE IF info.vectors_count = "null" THEN [raised |-> TRUE, printed |-> {}]
    ELSE [raised |-> FALSE, printed |-> {"details"}]

\* ---------------------------------------------------------------- answers

\* ['y', 'yes', 'si' with an accented i, 'si']; "i'" is the accented letter.
YesWords == {<<"y">>, <<"y", "e", "s">>, <<"s", "i'">>, <<"s", "i">>}

NoWords == {<<"n">>, <<"n", "o">>}

\* confirm_deletion: True, False, or ask again.
ConfirmDeletionAnyAnswer(raw) ==
    IF Strip(raw) = <<>> THEN "again" ELSE "yes"

ConfirmDeletion(raw) ==
    LET confirmation == Lower(Strip(raw))
    IN  IF confirmation \in YesWords THEN "yes"
        ELSE IF confirmation \in NoWords THEN "no"
        ELSE "again"

\* confirm in [the yes words] of get_collection_config
SaidYesUnlessNo(raw) == Lower(Strip(raw)) \notin NoWords

SaidYes(raw) == Lower(Strip(raw)) \in YesWords

\* if collections and any(col['name'] == name for col in collections)
NameExistsNever(got, name) == FALSE

NameExists(got, name) ==
    /\ ~got.none
    /\ got.list # <<>>
    /\ \E k \in 1..Len(got.list) : got.list[k].name = name

\* The size prompt: 1536 for an empty line, else int(); a ValueError asks
\* again ("invalid"), a value <= 0 is assigned and then asks again, a value
\* above 65536 asks for confirmation.
VectorSizeAcceptZero(raw) ==
    LET t == Strip(raw)
        n == ParseInt(t)
    IN  IF t = <<>> THEN [kind |-> "ok", size |-> DefaultVectorSize]
        ELSE IF ~n.ok THEN [kind |-> "invalid", size |-> 0]
        ELSE IF n.val < 0 THEN [kind |-> "again", size |-> n.val]
        ELSE IF n.val > LargeVectorSize THEN [kind |-> "confirm", size |-> n.val]
        ELSE [kind |-> "ok", size |-> n.val]

VectorSizeAcceptNegative(raw) ==
    LET t == Strip(raw)
        n == ParseInt(t)
    IN  IF t = <<>> THEN [kind |-> "ok", size |-> DefaultVectorSize]
        ELSE IF ~n.ok THEN [kind |-> "invalid", size |-> 0]
        ELSE IF n.val = 0 THEN [kind |-> "again", size |-> n.val]
        ELSE IF n.val > LargeVectorSize THEN [kind |-> "confirm", size |-> n.val]
        ELSE [kind |-> "ok", size |-> n.val]

VectorSizeNoLimit(raw) ==
    LET t == Strip(raw)
        n == ParseInt(t)
    IN  IF t = <<>> THEN [kind |-> "ok", size |-> DefaultVectorSize]
        ELSE IF ~n.ok THEN [kind |-> "invalid", size |-> 0]
        ELSE IF n.val <= 0 THEN [kind |-> "again", size |-> n.val]
        ELSE [kind |-> "ok", size |-> n.val]

VectorSize(raw) ==
    LET t == Strip(raw)
        n == ParseInt(t)
    IN  IF t = <<>> THEN [kind |-> "ok", size |-> DefaultVectorSize]
        ELSE IF ~n.ok THEN [kind |-> "invalid", size |-> 0]
        ELSE IF n.val <= 0 THEN [kind |-> "again", size |-> n.val]
        ELSE IF n.val > LargeVectorSize THEN [kind |-> "confirm", size |-> n.val]
        ELSE [kind |-> "ok", size |-> n.val]

\* distance_options, with '1' for an empty line; "" when the choice is invalid.
DistanceOption(raw) ==
    LET t == Strip(raw)
        choice == IF t = <<>> THEN <<"1">> ELSE t
    IN  CASE choice = <<"1">> -> "Cosine"
          [] choice = <<"2">> -> "Euclidean"
          [] choice = <<"3">> -> "Dot"
          [] OTHER -> ""

\* if choice in ['1', '2', '3', '4', '5'] of show_main_menu
MenuChoice(raw) ==
    LET choice == Strip(raw)
    IN  IF choice \in {<<"1">>, <<"2">>, <<"3">>, <<"4">>, <<"5">>}
        THEN choice[1] ELSE ""

\* ----------------------------------------------------------- configuration

\* Python's None, for an environment variable that is not set and for an
\* attribute that has no value.
None == "None"

\* `if v` / `not v` on a value that is None or a string.
TruthyUnlessNone(v) == v # None

Truthy(v) == v \notin {None, ""}

\* os.getenv(key, default)
Getenv(env, key, default) == IF env[key] = None THEN default ELSE env[key]

\* self.auth: the (user, password) pair, or the empty tuple for None.
AuthUserOnly(u, p) == IF Truthy(u) THEN <<u, p>> ELSE <<>>

Auth(u, p) == IF Truthy(u) /\ Truthy(p) THEN <<u, p>> ELSE <<>>

\* The process environments (after load_dotenv): every combination of the
\* two credentials for a configured host, and every host and port for
\* configured credentials.
Environments ==
    {[QDRANT_HOST |-> "qdrant", QDRANT_PORT |-> None,
      QDRANT_USER |-> u, QDRANT_PASSWORD |-> p] :
        u \in {None, "", "admin"}, p \in {None, "", "secret"}}
    \cup
    {[QDRANT_HOST |-> h, QDRANT_PORT |-> pt,
      QDRANT_USER |-> "admin", QDRANT_PASSWORD |-> "secret"] :
        h \in {None, "", "qdrant"}, pt \in {None, "6334"}}

\* The environments with both credentials and the default port.
ConfiguredEnvironments ==
    {e \in Environments : /\ e.QDRANT_PORT = None
                          /\ Truthy(e.QDRANT_USER)
                          /\ Truthy(e.QDRANT_PASSWORD)}

\* ------------------------------------------------------------- user input

\* What the user may type at each prompt (one line of text each).
MenuInputs == {<<"1">>, <<"2">>, <<"3">>, <<"4">>, <<"5">>, <<>>, <<"6">>,
               <<"x">>, <<" ", "4">>}

NameInputs == Names \cup {<<>>, <<" ", " ">>, <<" ">> \o NameOf(1) \o <<" ">>}

SizeInputs == {<<>>, IntText(768), <<"0">>, <<"-", "1">>, <<"x">>,
               IntText(70000), <<" ", "3", " ">>}

DistanceInputs == {<<>>, <<"1">>, <<"2">>, <<"3">>, <<"4">>, <<"x">>}

YesNoInputs == {<<"y">>, <<"Y">>, <<"y", "e", "s">>, <<"s", "i">>, <<"s", "i'">>,
                <<" ", "y", " ">>, <<"n">>, <<"N", "O">>, <<"n", "o">>, <<>>,
                <<"x">>}

\* Tokens of a typed selection: every index from 0 to one past the longest
\* listing, a padded index, a word, and the empty token.
SelTokens == {IntText(k) : k \in 0..(MaxCollections + 1)}
             \cup {<<" ", "1">>, <<"x">>, <<>>}

SelWholeLines == {<<"q">>, <<"Q">>, <<"e", "x", "i", "t">>, <<"*">>,
                  <<"a", "l", "l">>, <<"A", "L", "L">>, <<" ">>,
                  <<"t", "o", "d", "a", "s">>,
                  <<"-", "1">>, <<"+", "1">>}

LinesOf(most) ==
    {JoinComma(t) : t \in UNION {[1..n -> SelTokens] : n \in 1..most}}
    \cup SelWholeLines

SelectionInputs == LinesOf(MaxTokens)

TypedSelections == LinesOf(MaxTypedTokens)

\* ------------------------------------------------------------------- state

VARIABLES
    pc,            \* where the program is: the prompt it waits at, or the loop it runs
    remote,        \* the names stored on the remote service
    collections,   \* the listing fetched by the current menu action
    sel_action,    \* the `action` argument of get_user_selection
    selected,      \* the names returned by get_user_selection
    idx,           \* how many names of `selected` the running loop has finished
    successful,    \* delete_collections: successful
    failed,        \* delete_collections: failed
    name,          \* get_collection_config: the accepted name
    vector_size,   \* get_collection_config: vector_size
    distance,      \* get_collection_config: distance
    exit_code,     \* the exit status of the process once pc = "done"
    end_reason,    \* why the menu loop was left
    reqLog,        \* the HTTP requests issued by startup or by the current menu action
    out,           \* the kinds of lines printed by startup or by the current menu action
    shown,         \* the names listed by confirm_deletion
    confirmCalls,  \* how many times confirm_deletion was entered in this action
    answeredYes,   \* the user typed an affirmative answer to confirm_deletion
    accepted,      \* for each DELETE answered so far: did the service accept it
    validated,     \* the last name checked at the name prompt, and what was true then
    last,          \* the prompt the last line was read at, and what kind of line
    call,          \* the remote call of the last step, and how it ended
    selection,     \* the line given to the selection parser (parser specification)
    sel_result,    \* what get_user_selection made of it (parser specification)
    environ,       \* the environment variables of the process
    host,          \* self.host
    port,          \* self.port
    user,          \* self.user
    password,      \* self.password
    auth,          \* self.auth
    menu_shown,    \* show_main_menu has displayed the menu at least once
    served,        \* the answer to run's GET /collections in the current action, and what get_collections made of it
    size_confirmed,\* the user said yes to "Continuar?" for the size now held
    confirm,       \* get_collection_config: was the final prompt answered in this action, and affirmatively
    watched,       \* the collection whose stored configuration is followed
    kept,          \* the configuration the service keeps for `watched`
    entered,       \* the size and metric the user entered for `watched`
    reported,      \* the size and metric the last detail display showed for `watched`
    dotenv,        \* the settings that flowsettings reads through config()
    KH_LLMS,       \* flowsettings: KH_LLMS
    KH_EMBEDDINGS  \* flowsettings: KH_EMBEDDINGS

createVars == <<name, vector_size, distance, validated, size_confirmed, confirm>>
storeVars == <<watched, kept, entered, reported>>
batchVars == <<selected, idx, successful, failed, shown, confirmCalls,
               answeredYes, accepted>>
endVars == <<exit_code, end_reason>>
parseVars == <<selection, sel_result>>
configVars == <<environ, host, port, user, password, auth>>
startVars == <<configVars, menu_shown>>
settingsVars == <<dotenv, KH_LLMS, KH_EMBEDDINGS>>

vars == <<pc, remote, collections, served, sel_action, createVars, batchVars, endVars,
          reqLog, out, last, call, parseVars, settingsVars, startVars, storeVars>>

\* The settings with nothing set, and the module flowsettings not yet
\* imported: KH_LLMS = {} and KH_EMBEDDINGS = {}.
NoSettings ==
    [OPENAI_API_KEY |-> None, AZURE_OPENAI_API_KEY |-> None,
     AZURE_OPENAI_ENDPOINT |-> None, AZURE_OPENAI_CHAT_DEPLOYMENT |-> None,
     AZURE_OPENAI_EMBEDDINGS_DEPLOYMENT |-> None, VOYAGE_API_KEY |-> None,
     LOCAL_MODEL |-> None]

SettingsNotLoaded ==
    dotenv = NoSettings /\ KH_LLMS = <<>> /\ KH_EMBEDDINGS = <<>>

\* The requests the program issues; each is sent with auth=self.auth.
GetRoot == [method |-> "GET", kind |-> "root", name |-> <<>>, auth |-> auth]
GetList == [method |-> "GET", kind |-> "list", name |-> <<>>, auth |-> auth]
GetItem(n) == [method |-> "GET", kind |-> "item", name |-> n, auth |-> auth]
PutItem(n, config) == [method |-> "PUT", kind |-> "item", name |-> n,
                       auth |-> auth, body |-> config]
DeleteItem(n) == [method |-> "DELETE", kind |-> "item", name |-> n, auth |-> auth]

NoVectors == [size |-> 0, distance |-> ""]
NoConfig == [vectors |-> NoVectors]
NotServed == [fetched |-> FALSE, resp |-> "", none |-> TRUE, list |-> <<>>]
NoCall == [op |-> "none", failed |-> FALSE, surfaced |-> FALSE]
NoPrompt == [prompt |-> "none", kind |-> "none"]
NotAsked == [asked |-> FALSE, yes |-> FALSE]
NotValidated == [name |-> <<>>, existed |-> FALSE, fetched |-> FALSE]
Unparsed == [kind |-> "unset", none |-> TRUE, names |-> <<>>]

\* A response with a success status whose body the code cannot use.
Http200(resp) == resp \in {"ok", "error_body", "bad_json", "null_result"}

\* What the claims call malformed input, prompt by prompt.
MalformedMenu(raw) == Strip(raw) \notin {<<"1">>, <<"2">>, <<"3">>, <<"4">>, <<"5">>}
MalformedName(raw) == Strip(raw) = <<>>
MalformedSize(raw) ==
    /\ Strip(raw) # <<>>
    /\ ~ParseInt(raw).ok \/ ParseInt(raw).val <= 0
MalformedDistance(raw) == Strip(raw) \notin {<<>>, <<"1">>, <<"2">>, <<"3">>}
MalformedConfirm(raw) == Lower(Strip(raw)) \notin (YesWords \cup NoWords)
Affirmative(raw) == Lower(Strip(raw)) \in YesWords

\* The tokens of a typed selection, as the claims count them.
TokensOf(raw) == SplitComma(Strip(raw), <<>>)
IsIndex(tok, n) == ParseInt(tok).ok /\ ParseInt(tok).val \in 1..n
IsKeyword(action, raw) ==
    \/ Lower(Strip(raw)) \in QuitWords
    \/ action = "borrar" /\ Lower(Strip(raw)) \in AllWords
HasBadToken(raw, n) ==
    \E k \in 1..Len(TokensOf(raw)) : ~IsIndex(TokensOf(raw)[k], n)
MalformedSelection(action, raw, n) ==
    /\ Strip(raw) # <<>>
    /\ ~IsKeyword(action, raw)
    /\ HasBadToken(raw, n)

Event(prompt, malformed) ==
    [prompt |-> prompt, kind |-> IF malformed THEN "malformed" ELSE "valid"]
Blank(prompt) == [prompt |-> prompt, kind |-> "blank"]
Interrupted(prompt) == [prompt |-> prompt, kind |-> "interrupt"]

\* The process starts with the given environment and nothing constructed,
\* against a service that holds some collections.
Start(environments, stored, followed) ==
    /\ pc = "load_config"
    /\ watched \in followed
    /\ kept = NoConfig /\ entered = NoVectors /\ reported = NoVectors
    /\ environ \in environments
    /\ host = None /\ port = None /\ user = None /\ password = None
    /\ auth = <<>>
    /\ menu_shown = FALSE
    /\ remote \in stored
    /\ collections = <<>> /\ served = NotServed
    /\ sel_action = ""
    /\ selected = <<>> /\ idx = 0 /\ successful = <<>> /\ failed = <<>>
    /\ shown = <<>> /\ confirmCalls = 0 /\ answeredYes = FALSE /\ accepted = <<>>
    /\ name = <<>> /\ vector_size = 0 /\ distance = "" /\ size_confirmed = FALSE
    /\ confirm = NotAsked
    /\ validated = NotValidated
    /\ exit_code = 0 /\ end_reason = ""
    /\ reqLog = <<>> /\ out = {}
    /\ last = NoPrompt /\ call = NoCall
    /\ selection = <<>> /\ sel_result = Unparsed
    /\ SettingsNotLoaded

Init == Start(ConfiguredEnvironments, SUBSET Names, {<<>>})

\* The per-action variables as they are when the menu is shown.  The local
\* `collections` of run keeps its value from one pass of the loop to the
\* next; it is emptied here because every branch that reads it assigns it
\* first (the specification SpecFetch starts from a kept listing instead).
ResetAction ==
    /\ collections' = <<>> /\ served' = NotServed
    /\ sel_action' = ""
    /\ selected' = <<>> /\ idx' = 0 /\ successful' = <<>> /\ failed' = <<>>
    /\ shown' = <<>> /\ confirmCalls' = 0 /\ answeredYes' = FALSE
    /\ accepted' = <<>>
    /\ name' = <<>> /\ vector_size' = 0 /\ distance' = ""
    /\ size_confirmed' = FALSE /\ reported' = NoVectors
    /\ confirm' = NotAsked
    /\ validated' = NotValidated
    /\ reqLog' = <<>> /\ out' = {}

\* Leaving the while loop of run: the farewell line, then main returns.
Leave(reason) ==
    /\ pc' = "done"
    /\ end_reason' = reason
    /\ exit_code' = 0

\* __init__ and load_config: the four settings are read from the
\* environment; without a host the process exits with status 1, without
\* both credentials it warns and goes on.
LoadConfig ==
    /\ pc = "load_config"
    /\ host' = Getenv(environ, "QDRANT_HOST", None)
    /\ port' = Getenv(environ, "QDRANT_PORT", "6333")
    /\ user' = Getenv(environ, "QDRANT_USER", None)
    /\ password' = Getenv(environ, "QDRANT_PASSWORD", None)
    /\ IF ~Truthy(host')
       THEN /\ out' = {"error_no_host"}
            /\ pc' = "done" /\ exit_code' = 1 /\ end_reason' = "fatal"
            /\ UNCHANGED auth
       ELSE /\ out' = IF ~Truthy(user') \/ ~Truthy(password')
                      THEN {"warning_credentials"} ELSE {}
            /\ auth' = Auth(user', password')
            /\ pc' = "test_connection"
            /\ UNCHANGED endVars
    /\ UNCHANGED <<environ, menu_shown, remote, collections, served, sel_action,
                   createVars, batchVars, reqLog, last, call, parseVars, settingsVars,
                   storeVars>>

\* run: the connection test before the menu, one GET / with no retry;
\* sys.exit(1) when it fails, the menu when it succeeds.
TestConnection ==
    /\ pc = "test_connection"
    /\ reqLog' = <<GetRoot>>
    /\ \E resp \in Responses :
         IF Http200(resp)
         THEN /\ pc' = "menu" /\ menu_shown' = TRUE
              /\ out' = out \cup {"connected"}
              /\ UNCHANGED endVars
         ELSE /\ pc' = "done" /\ exit_code' = 1 /\ end_reason' = "fatal"
              /\ out' = out \cup {"error_connection"}
              /\ UNCHANGED menu_shown
    /\ last' = NoPrompt /\ call' = NoCall
    /\ UNCHANGED <<remote, collections, served, sel_action, createVars, batchVars,
                   parseVars, settingsVars, configVars, storeVars>>

\* show_main_menu: a line that is none of 1..5 asks again.
MenuInvalid ==
    /\ pc = "menu"
    /\ \E raw \in MenuInputs :
         /\ MenuChoice(raw) = ""
         /\ last' = Event("menu", MalformedMenu(raw))
    /\ call' = NoCall
    /\ UNCHANGED <<pc, remote, collections, served, sel_action, createVars, batchVars,
                   endVars, reqLog, out, parseVars, settingsVars, startVars, storeVars>>

\* Choice 5, or an interrupt at the menu prompt (show_main_menu returns '5').
MenuQuit ==
    /\ pc = "menu"
    /\ \/ /\ \E raw \in MenuInputs : MenuChoice(raw) = "5"
          /\ last' = Event("menu", FALSE)
       \/ last' = Interrupted("menu")
    /\ Leave("quit")
    /\ call' = NoCall
    /\ UNCHANGED <<remote, collections, served, sel_action, createVars, batchVars,
                   reqLog, out, parseVars, settingsVars, startVars, storeVars>>

\* run: collections = self.get_collections(), at the top of choices 1, 3
\* and 4; `previous` is the value the local had before.
FetchedOrKept(got, previous) ==
    IF got.none /\ previous # <<>>
    THEN [none |-> FALSE, list |-> previous, printed |-> got.printed]
    ELSE got

Fetched(got, previous) == got

\* Choice 1: fetch the listing and display it.
MenuList ==
    /\ pc = "menu"
    /\ \E raw \in MenuInputs : MenuChoice(raw) = "1"
    /\ \E resp \in Responses, vc \in FieldKinds :
         LET answer == GetCollections(resp, remote, vc)
             got == Fetched(answer, collections)
             shownList == DisplayCollections(got.list)
         IN  /\ collections' = got.list
             /\ served' = [fetched |-> TRUE, resp |-> resp,
                            none |-> answer.none, list |-> answer.list]
             /\ reqLog' = <<GetList>>
             /\ call' = [op |-> "list",
                         failed |-> got.none \/ shownList.raised,
                         surfaced |-> got.printed # {}]
             /\ IF got.none
                THEN /\ out' = got.printed \cup {"error_no_collections"}
                     /\ pc' = "pause" /\ UNCHANGED endVars
                ELSE IF shownList.raised
                THEN out' = {"traceback"} /\ Leave("exception")
                ELSE /\ out' = shownList.printed
                     /\ pc' = "pause" /\ UNCHANGED endVars
    /\ last' = Event("menu", FALSE)
    /\ UNCHANGED <<remote, sel_action, createVars, batchVars, parseVars, settingsVars, startVars, storeVars>>

\* Choices 3 and 4: fetch the listing, display it, and ask for a selection.
MenuSelect(choice, action) ==
    /\ pc = "menu"
    /\ \E raw \in MenuInputs : MenuChoice(raw) = choice
    /\ \E resp \in Responses, vc \in FieldKinds :
         LET answer == GetCollections(resp, remote, vc)
             got == Fetched(answer, collections)
             shownList == DisplayCollections(got.list)
         IN  /\ collections' = got.list
             /\ served' = [fetched |-> TRUE, resp |-> resp,
                            none |-> answer.none, list |-> answer.list]
             /\ reqLog' = <<GetList>>
             /\ call' = [op |-> "list",
                         failed |-> got.none \/ (got.list # <<>> /\ shownList.raised),
                         surfaced |-> got.printed # {}]
             /\ IF got.none
                THEN /\ out' = got.printed \cup {"error_no_collections"}
                     /\ pc' = "pause" /\ sel_action' = "" /\ UNCHANGED endVars
                ELSE IF got.list = <<>>
                THEN /\ out' = {"warning_no_collections"}
                     /\ pc' = "pause" /\ sel_action' = "" /\ UNCHANGED endVars
                ELSE IF shownList.raised
                THEN out' = {"traceback"} /\ sel_action' = "" /\ Leave("exception")
                ELSE /\ out' = shownList.printed
                     /\ pc' = "select" /\ sel_action' = action
                     /\ UNCHANGED endVars
    /\ last' = Event("menu", FALSE)
    /\ UNCHANGED <<remote, createVars, batchVars, parseVars, settingsVars, startVars, storeVars>>

MenuDetails == MenuSelect("3", "ver detalles")

MenuDelete == MenuSelect("4", "borrar")

\* Choice 2: get_collection_config starts at the name prompt.
MenuCreate ==
    /\ pc = "menu"
    /\ \E raw \in MenuInputs : MenuChoice(raw) = "2"
    /\ pc' = "create_name"
    /\ reqLog' = <<>> /\ out' = {}
    /\ last' = Event("menu", FALSE) /\ call' = NoCall
    /\ UNCHANGED <<remote, collections, served, sel_action, createVars, batchVars,
                   endVars, parseVars, settingsVars, startVars, storeVars>>

\* ------------------------------------------------------------ create flow

\* The name prompt: an empty name asks again; otherwise the listing is
\* fetched again and a name found in it asks again.
CreateName ==
    /\ pc = "create_name"
    /\ \E raw \in NameInputs :
         LET typed == Strip(raw)
         IN  IF typed = <<>>
             THEN /\ last' = Event("create_name", MalformedName(raw))
                  /\ call' = NoCall
                  /\ UNCHANGED <<pc, name, validated, reqLog, out>>
             ELSE /\ Len(reqLog) < MaxNameTries
                  /\ \E resp \in Responses, vc \in FieldKinds :
                       LET got == GetCollections(resp, remote, vc)
                       IN  /\ reqLog' = Append(reqLog, GetList)
                           /\ call' = [op |-> "list", failed |-> got.none,
                                       surfaced |-> got.printed # {}]
                           /\ validated' = [name |-> typed,
                                            existed |-> typed \in remote,
                                            fetched |-> ~got.none]
                           /\ IF NameExists(got, typed)
                              THEN /\ out' = out \cup got.printed \cup {"error_exists"}
                                   /\ UNCHANGED <<pc, name>>
                              ELSE /\ out' = out \cup got.printed
                                   /\ name' = typed
                                   /\ pc' = "create_size"
                  /\ last' = Event("create_name", MalformedName(raw))
    /\ UNCHANGED <<remote, collections, served, sel_action, vector_size, distance,
                   size_confirmed, confirm,
                   batchVars, endVars, parseVars, settingsVars, startVars, storeVars>>

\* The size prompt.
CreateSize ==
    /\ pc = "create_size"
    /\ \E raw \in SizeInputs :
         LET got == VectorSize(raw)
         IN  /\ last' = Event("create_size", MalformedSize(raw))
             /\ CASE got.kind = "invalid" -> UNCHANGED <<pc, vector_size>>
                  [] got.kind = "again" ->
                         vector_size' = got.size /\ UNCHANGED pc
                  [] got.kind = "confirm" ->
                         vector_size' = got.size /\ pc' = "create_confirm_size"
                  [] OTHER ->
                         vector_size' = got.size /\ pc' = "create_distance"
    /\ call' = NoCall
    /\ size_confirmed' = FALSE
    /\ UNCHANGED <<remote, collections, served, sel_action, name, distance, validated,
                   confirm,
                   batchVars, endVars, reqLog, out, parseVars, settingsVars, startVars, storeVars>>

\* The "Continuar?" prompt for a large size: anything but yes goes back to the size prompt.
CreateConfirmSize ==
    /\ pc = "create_confirm_size"
    /\ \E raw \in YesNoInputs :
         /\ pc' = IF SaidYes(raw) THEN "create_distance" ELSE "create_size"
         /\ size_confirmed' = SaidYes(raw)
         /\ last' = Event("create_confirm_size", MalformedConfirm(raw))
    /\ call' = NoCall
    /\ UNCHANGED <<remote, collections, served, sel_action, name, vector_size,
                   distance, validated, confirm, batchVars,
                   endVars, reqLog, out, parseVars, settingsVars, startVars, storeVars>>

\* The distance prompt.
CreateDistance ==
    /\ pc = "create_distance"
    /\ \E raw \in DistanceInputs :
         /\ last' = Event("create_distance", MalformedDistance(raw))
         /\ IF DistanceOption(raw) = ""
            THEN UNCHANGED <<pc, distance>>
            ELSE distance' = DistanceOption(raw) /\ pc' = "create_confirm"
    /\ call' = NoCall
    /\ UNCHANGED <<remote, collections, served, sel_action, name, vector_size, validated,
                   size_confirmed, confirm,
                   batchVars, endVars, reqLog, out, parseVars, settingsVars, startVars, storeVars>>

\* config = {"vectors": {"size": vector_size, "distance": distance}}
ConfigDefaultDistance(size, metric) ==
    [vectors |-> [size |-> size, distance |-> "Cosine"]]

Config(size, metric) == [vectors |-> [size |-> size, distance |-> metric]]

\* run: `if self.create_collection(name, config):` is followed by one
\* get_collection_info(name), and has no else branch.
VerifyRequestsAlways(created, n) == <<GetItem(n)>>

VerifyRequests(created, n) == IF created THEN <<GetItem(n)>> ELSE <<>>

\* What the service keeps for `watched` once the name n has been dropped.
KeptWithout(n) == IF n = watched THEN NoConfig ELSE kept

\* The final "Crear coleccion?" prompt: yes returns the configuration to run, which issues
\* the PUT and, when it succeeds, fetches the detail of the new collection;
\* anything else cancels.  The service accepts a PUT only for a name it does
\* not hold; a PUT that times out may or may not have been applied.
CreateConfirm ==
    /\ pc = "create_confirm"
    /\ \E raw \in YesNoInputs :
       /\ confirm' = [asked |-> TRUE, yes |-> Affirmative(raw)]
       /\ IF SaidYes(raw)
         THEN \E resp \in Responses, applied \in BOOLEAN :
                /\ resp = "ok" => name \notin remote
                /\ applied = TRUE => name \notin remote /\ resp \in {"ok", "timeout"}
                /\ resp = "ok" => applied
                /\ remote' = IF applied THEN remote \cup {name} ELSE remote
                /\ kept' = IF applied /\ name = watched
                           THEN Config(vector_size, distance) ELSE kept
                /\ entered' = IF applied /\ name = watched
                              THEN [size |-> vector_size, distance |-> distance]
                              ELSE entered
                /\ IF CreateCollection(resp)
                   THEN \E resp2 \in Responses, fields \in FieldKinds :
                          LET info == GetCollectionInfo(resp2, fields)
                          IN  /\ reqLog' = reqLog \o
                                     <<PutItem(name, Config(vector_size, distance))>>
                                     \o VerifyRequests(TRUE, name)
                              /\ out' = out \cup {"created"} \cup
                                          (IF info.none THEN {} ELSE {"created_info"})
                              /\ call' = [op |-> "detail", failed |-> info.none,
                                          surfaced |-> FALSE]
                   ELSE /\ reqLog' = reqLog \o
                                     <<PutItem(name, Config(vector_size, distance))>>
                                     \o VerifyRequests(FALSE, name)
                        /\ out' = out \cup {"error_create"}
                        /\ call' = [op |-> "create", failed |-> TRUE,
                                    surfaced |-> TRUE]
                /\ last' = Event("create_confirm", FALSE)
         ELSE /\ out' = out \cup {"create_cancelled"}
              /\ call' = NoCall
              /\ last' = Event("create_confirm", MalformedConfirm(raw))
              /\ UNCHANGED <<remote, reqLog, kept, entered>>
    /\ pc' = "pause"
    /\ UNCHANGED <<collections, served, sel_action, name, vector_size, distance,
                   validated, size_confirmed, batchVars, endVars,
                   parseVars, settingsVars, startVars, watched, reported>>

CreatePrompts == {"create_name", "create_size", "create_confirm_size",
                  "create_distance", "create_confirm"}

\* KeyboardInterrupt at a prompt of get_collection_config: caught there,
\* None is returned and run goes on to its pause.
CreateInterrupt ==
    /\ pc \in CreatePrompts
    /\ out' = out \cup {"cancelled"}
    /\ pc' = "pause"
    /\ last' = Interrupted(pc) /\ call' = NoCall
    /\ UNCHANGED <<remote, collections, served, sel_action, createVars, batchVars,
                   endVars, reqLog, parseVars, settingsVars, startVars, storeVars>>

\* --------------------------------------------------------------- selection

\* The selection prompt of get_user_selection, for details and for delete.
\* A returned selection starts the detail loop, or enters confirm_deletion,
\* which lists every name of the batch before it asks.
Select ==
    /\ pc = "select"
    /\ \E raw \in TypedSelections :
         LET got == GetUserSelection(collections, sel_action, raw)
         IN  /\ last' = IF Strip(raw) = <<>> THEN Blank("select")
                        ELSE Event("select",
                                   MalformedSelection(sel_action, raw,
                                                      Len(collections)))
             /\ IF got.kind = "continue"
                THEN UNCHANGED <<pc, selected, shown, confirmCalls, out>>
                ELSE IF got.none
                THEN /\ pc' = "pause"
                     /\ UNCHANGED <<selected, shown, confirmCalls, out>>
                ELSE IF sel_action = "borrar"
                THEN /\ selected' = got.names
                     /\ shown' = got.names
                     /\ confirmCalls' = confirmCalls + 1
                     /\ out' = out \cup {"delete_warning"}
                     /\ pc' = "confirm_deletion"
                ELSE /\ selected' = got.names
                     /\ pc' = "details"
                     /\ UNCHANGED <<shown, confirmCalls, out>>
    /\ call' = NoCall
    /\ UNCHANGED <<remote, collections, served, sel_action, createVars, idx, successful,
                   failed, answeredYes, accepted, endVars, reqLog, parseVars, settingsVars, startVars, storeVars>>

\* KeyboardInterrupt at the selection prompt: caught, None is returned.
SelectInterrupt ==
    /\ pc = "select"
    /\ out' = out \cup {"cancelled"}
    /\ pc' = "pause"
    /\ last' = Interrupted("select") /\ call' = NoCall
    /\ UNCHANGED <<remote, collections, served, sel_action, createVars, batchVars,
                   endVars, reqLog, parseVars, settingsVars, startVars, storeVars>>

\* ------------------------------------------------------------ batch delete

\* confirm_deletion's prompt: yes starts delete_collections, no cancels,
\* anything else asks again.
ConfirmDelete ==
    /\ pc = "confirm_deletion"
    /\ \E raw \in YesNoInputs :
         LET answer == ConfirmDeletion(raw)
         IN  /\ last' = Event("confirm_deletion", MalformedConfirm(raw))
             /\ CASE answer = "yes" ->
                       /\ answeredYes' = Affirmative(raw)
                       /\ out' = out \cup {"delete_started"}
                       /\ pc' = "delete_next"
                  [] answer = "no" ->
                       /\ out' = out \cup {"delete_cancelled"}
                       /\ pc' = "pause"
                       /\ UNCHANGED answeredYes
                  [] OTHER -> UNCHANGED <<pc, out, answeredYes>>
    /\ call' = NoCall
    /\ UNCHANGED <<remote, collections, served, sel_action, createVars, selected, idx,
                   successful, failed, shown, confirmCalls, accepted, endVars,
                   reqLog, parseVars, settingsVars, startVars, storeVars>>

\* successful.append(name) or failed.append(name)
RecordOutcomeForgetFailed(ok, lists, collection_name) ==
    IF ok
    THEN [successful |-> Append(lists.successful, collection_name),
          failed |-> lists.failed]
    ELSE lists

RecordOutcomeAlwaysSuccessful(ok, lists, collection_name) ==
    [successful |-> Append(lists.successful, collection_name),
     failed |-> lists.failed]

RecordOutcome(ok, lists, collection_name) ==
    IF ok
    THEN [successful |-> Append(lists.successful, collection_name),
          failed |-> lists.failed]
    ELSE [successful |-> lists.successful,
          failed |-> Append(lists.failed, collection_name)]

\* The for loop of delete_collections goes on to the next name whatever the
\* outcome, and returns after the last one.
AfterDeleteStopOnFailure(ok, done, total) ==
    IF ok /\ done < total THEN "delete_next" ELSE "pause"

AfterDelete(ok, done, total) ==
    IF done < total THEN "delete_next" ELSE "pause"

\* delete_collections: the DELETE request for the next name is sent.
DeleteSend ==
    /\ pc = "delete_next"
    /\ idx < Len(selected)
    /\ reqLog' = Append(reqLog, DeleteItem(selected[idx + 1]))
    /\ pc' = "delete_wait"
    /\ last' = NoPrompt /\ call' = NoCall
    /\ UNCHANGED <<remote, collections, served, sel_action, createVars, batchVars,
                   endVars, out, parseVars, settingsVars, startVars, storeVars>>

\* The DELETE call completes: its outcome is recorded at once, then the loop
\* pauses and goes on; after the last name run displays the results.  A
\* request that timed out may or may not have been applied by the service.
DeleteReturn ==
    /\ pc = "delete_wait"
    /\ \E response \in DeleteAnswers, applied \in BOOLEAN :
         LET collection_name == selected[idx + 1]
             ok == DeleteCollection(response)
             lists == RecordOutcome(ok, [successful |-> successful,
                                         failed |-> failed], collection_name)
             next == AfterDelete(ok, idx + 1, Len(selected))
         IN  /\ Acknowledged(response) => applied
             /\ applied => Acknowledged(response) \/ response.raised = "timeout"
             /\ remote' = IF applied THEN remote \ {collection_name} ELSE remote
             /\ kept' = IF applied THEN KeptWithout(collection_name) ELSE kept
             /\ successful' = lists.successful
             /\ failed' = lists.failed
             /\ accepted' = Append(accepted, Acknowledged(response))
             /\ idx' = idx + 1
             /\ pc' = next
             /\ out' = out \cup (IF ok THEN {} ELSE {"error_delete"})
                           \cup (IF next = "pause" THEN {"results"} ELSE {})
             /\ call' = [op |-> "delete", failed |-> ~Acknowledged(response),
                         surfaced |-> ~ok, answer |-> response]
    /\ last' = NoPrompt
    /\ UNCHANGED <<collections, served, sel_action, createVars, selected, shown,
                   confirmCalls, answeredYes, endVars, reqLog, parseVars, settingsVars,
                   startVars, watched, entered, reported>>

\* ---------------------------------------------------------------- details

\* The "Dimensiones" and "Funcion distancia" lines, printed from the vectors
\* object of the answer when it is not empty.
Dimensions(vectors_config) ==
    IF vectors_config = NoVectors THEN NoVectors
    ELSE [size |-> vectors_config.size, distance |-> vectors_config.distance]

\* show_collection_details: one detail fetch per selected name, in order.  For
\* the watched name the answer carries the configuration the service keeps.
DetailStep ==
    /\ pc = "details"
    /\ idx < Len(selected)
    /\ \E resp \in Responses, fields \in FieldKinds :
         LET info == GetCollectionInfo(resp, fields)
             lines == ShowDetails(info)
         IN  /\ reqLog' = Append(reqLog, GetItem(selected[idx + 1]))
             /\ call' = [op |-> "detail",
                         failed |-> info.none \/ lines.raised,
                         surfaced |-> info.none]
             /\ IF lines.raised
                THEN /\ out' = out \cup {"traceback"}
                     /\ Leave("exception")
                     /\ UNCHANGED <<idx, reported>>
                ELSE /\ out' = out \cup lines.printed
                     /\ reported' = IF ~info.none /\ selected[idx + 1] = watched
                                    THEN Dimensions(kept.vectors) ELSE reported
                     /\ idx' = idx + 1
                     /\ pc' = IF idx + 1 < Len(selected) THEN "details" ELSE "pause"
                     /\ UNCHANGED endVars
    /\ last' = NoPrompt
    /\ UNCHANGED <<remote, collections, served, sel_action, createVars, selected,
                   successful, failed, shown, confirmCalls, answeredYes,
                   accepted, parseVars, settingsVars, startVars, watched, kept, entered>>

\* ------------------------------------------------- interrupts and the pause

\* KeyboardInterrupt where nothing inside the action catches it: at the
\* prompt of confirm_deletion, inside the loops of delete_collections and
\* show_collection_details, and at the pause of run.  It reaches the except
\* clause around the while loop of run, and the loop is left.  A DELETE in
\* flight may or may not have been applied.
Interrupt ==
    /\ pc \in {"confirm_deletion", "delete_next", "delete_wait", "details", "pause"}
    /\ last' = IF pc \in {"confirm_deletion", "pause"}
               THEN Interrupted(pc) ELSE NoPrompt
    /\ \E applied \in BOOLEAN :
         /\ applied => pc = "delete_wait"
         /\ remote' = IF applied THEN remote \ {selected[idx + 1]} ELSE remote
         /\ kept' = IF applied THEN KeptWithout(selected[idx + 1]) ELSE kept
    /\ Leave("interrupt")
    /\ call' = NoCall
    /\ UNCHANGED <<collections, served, sel_action, createVars, batchVars, reqLog, out,
                   parseVars, settingsVars, startVars, watched, entered, reported>>

\* "Presiona Enter para continuar": any line goes back to the menu.
Pause ==
    /\ pc = "pause"
    /\ pc' = "menu"
    /\ ResetAction
    /\ last' = Event("pause", FALSE) /\ call' = NoCall
    /\ UNCHANGED <<remote, endVars, parseVars, settingsVars, startVars, watched, kept,
                   entered>>

\* Another client of the service creates or drops a collection.
External ==
    /\ pc \notin {"done", "load_config", "test_connection", "parse", "parsed"}
    /\ \E n \in Names : /\ remote' = IF n \in remote THEN remote \ {n}
                                     ELSE remote \cup {n}
                        /\ kept' = KeptWithout(n)
    /\ UNCHANGED <<pc, collections, served, sel_action, createVars, batchVars, endVars,
                   reqLog, out, last, call, parseVars, settingsVars, startVars, watched,
                   entered, reported>>

\* The steps of the program itself.
NextAlone ==
    \/ LoadConfig
    \/ TestConnection
    \/ MenuInvalid
    \/ MenuQuit
    \/ MenuList
    \/ MenuCreate
    \/ MenuDetails
    \/ MenuDelete
    \/ CreateName
    \/ CreateSize
    \/ CreateConfirmSize
    \/ CreateDistance
    \/ CreateConfirm
    \/ CreateInterrupt
    \/ Select
    \/ SelectInterrupt
    \/ ConfirmDelete
    \/ DeleteSend
    \/ DeleteReturn
    \/ DetailStep
    \/ Interrupt
    \/ Pause

Next ==
    \/ NextAlone
    \/ External

Spec == Init /\ [][Next]_vars

\* The program as the only client of a service that starts empty, under
\* every environment.
InitAlone == Start(Environments, {{}}, {<<>>})

SpecAlone == InitAlone /\ [][NextAlone]_vars

\* Creating and inspecting, as the only client of a service that starts
\* empty and keeps the configuration it is sent; the configuration is
\* followed for the first name.
InitStore ==
    Start({e \in ConfiguredEnvironments : Truthy(e.QDRANT_HOST)}, {{}},
          {NameOf(1)})

NextStore ==
    \/ LoadConfig
    \/ TestConnection
    \/ MenuCreate
    \/ CreateName
    \/ CreateSize
    \/ CreateConfirmSize
    \/ CreateDistance
    \/ CreateConfirm
    \/ CreateInterrupt
    \/ MenuDetails
    \/ Select
    \/ DetailStep
    \/ Pause

SpecStore == InitStore /\ [][NextStore]_vars

\* ------------------------------------------- the selection parser alone

\* The manager is constructed from a configured environment and the
\* connection test has passed.
Constructed ==
    /\ environ \in {e \in ConfiguredEnvironments : Truthy(e.QDRANT_HOST)}
    /\ host = environ.QDRANT_HOST /\ port = "6333"
    /\ user = environ.QDRANT_USER /\ password = environ.QDRANT_PASSWORD
    /\ auth = Auth(user, password)
    /\ menu_shown = TRUE

\* Every listing of distinct names, in any order.
Listings ==
    {l \in UNION {[1..n -> Names] : n \in 1..MaxCollections} :
        \A i, j \in 1..Len(l) : l[i] = l[j] => i = j}

EntriesOf(l) == [k \in 1..Len(l) |-> [name |-> l[k], vectors_count |-> "absent"]]

InitSel ==
    /\ pc = "parse"
    /\ remote = {}
    /\ collections \in {EntriesOf(l) : l \in Listings}
    /\ served = [fetched |-> TRUE, resp |-> "ok", none |-> FALSE,
                 list |-> collections]
    /\ sel_action \in {"borrar", "ver detalles"}
    /\ selection \in SelectionInputs
    /\ sel_result = Unparsed
    /\ selected = <<>> /\ idx = 0 /\ successful = <<>> /\ failed = <<>>
    /\ shown = <<>> /\ confirmCalls = 0 /\ answeredYes = FALSE /\ accepted = <<>>
    /\ name = <<>> /\ vector_size = 0 /\ distance = "" /\ size_confirmed = FALSE
    /\ confirm = NotAsked
    /\ validated = NotValidated
    /\ exit_code = 0 /\ end_reason = ""
    /\ reqLog = <<>> /\ out = {}
    /\ last = NoPrompt /\ call = NoCall
    /\ Constructed
    /\ SettingsNotLoaded
    /\ watched = <<>>
    /\ kept = NoConfig /\ entered = NoVectors /\ reported = NoVectors

\* One pass of get_user_selection over the given line.
ParseSelection ==
    /\ pc = "parse"
    /\ sel_result' = GetUserSelection(collections, sel_action, selection)
    /\ pc' = "parsed"
    /\ UNCHANGED <<remote, collections, served, sel_action, createVars, batchVars,
                   endVars, reqLog, out, last, call, selection, startVars, storeVars, settingsVars>>

NextSel == ParseSelection

SpecSel == InitSel /\ [][NextSel]_vars

\* --------------------------------- one menu action after earlier ones

\* The values run's local `collections` can hold when the menu is shown:
\* empty before the first listing, afterwards a listing that an earlier
\* action fetched and displayed.
KeptListings ==
    {<<>>} \cup {ListingFrom(1, S, vc) : S \in SUBSET Names,
                                        vc \in FieldKinds \ {"null"}}

InitFetch ==
    /\ pc = "menu"
    /\ remote \in SUBSET Names
    /\ collections \in KeptListings /\ served = NotServed
    /\ sel_action = ""
    /\ selected = <<>> /\ idx = 0 /\ successful = <<>> /\ failed = <<>>
    /\ shown = <<>> /\ confirmCalls = 0 /\ answeredYes = FALSE /\ accepted = <<>>
    /\ name = <<>> /\ vector_size = 0 /\ distance = "" /\ size_confirmed = FALSE
    /\ confirm = NotAsked
    /\ validated = NotValidated
    /\ exit_code = 0 /\ end_reason = ""
    /\ reqLog = <<>> /\ out = {}
    /\ last = NoPrompt /\ call = NoCall
    /\ selection = <<>> /\ sel_result = Unparsed
    /\ Constructed
    /\ SettingsNotLoaded
    /\ watched = <<>>
    /\ kept = NoConfig /\ entered = NoVectors /\ reported = NoVectors

\* The list, detail and delete actions, up to their pause.
NextFetch ==
    \/ MenuList
    \/ MenuDetails
    \/ MenuDelete
    \/ Select
    \/ SelectInterrupt
    \/ ConfirmDelete
    \/ DeleteSend
    \/ DeleteReturn
    \/ DetailStep
    \/ External

SpecFetch == InitFetch /\ [][NextFetch]_vars

\* ------------------------------------------------------------ flowsettings

\* decouple's config(key, default=...): the configured value, or the default
\* when the key is not set.
config(env, key, default) == IF env[key] = None THEN default ELSE env[key]

OPENAI_DEFAULT == "<YOUR_OPENAI_KEY>"

\* IS_OPENAI_DEFAULT = len(OPENAI_API_KEY) > 0 and OPENAI_API_KEY != OPENAI_DEFAULT
IsOpenaiDefaultAnyKey(key) == key # ""

IsOpenaiDefault(key) == key # "" /\ key # OPENAI_DEFAULT

\* d[key] = {"spec": ..., "default": default}
SetEntry(d, key, default) == (key :> [default |-> default]) @@ d

\* if config("AZURE_OPENAI_API_KEY", default="") and config("AZURE_OPENAI_ENDPOINT", default="")
AzureConfigured(env) ==
    /\ Truthy(config(env, "AZURE_OPENAI_API_KEY", ""))
    /\ Truthy(config(env, "AZURE_OPENAI_ENDPOINT", ""))

\* KH_LLMS after the module has run, entry by entry in the order of the file.
Llms(env) ==
    LET OPENAI_API_KEY == config(env, "OPENAI_API_KEY", OPENAI_DEFAULT)
        IS_OPENAI_DEFAULT == IsOpenaiDefault(OPENAI_API_KEY)
        d1 == IF /\ AzureConfigured(env)
                 /\ Truthy(config(env, "AZURE_OPENAI_CHAT_DEPLOYMENT", ""))
              THEN SetEntry(<<>>, "azure", FALSE) ELSE <<>>
        d2 == IF Truthy(OPENAI_API_KEY)
              THEN SetEntry(d1, "openai", IS_OPENAI_DEFAULT) ELSE d1
        d3 == IF Truthy(config(env, "LOCAL_MODEL", ""))
              THEN SetEntry(SetEntry(d2, "ollama", FALSE),
                            "ollama-long-context", FALSE)
              ELSE d2
        d4 == SetEntry(d3, "claude", FALSE)
        d5 == SetEntry(d4, "google", ~IS_OPENAI_DEFAULT)
        d6 == SetEntry(d5, "groq", FALSE)
        d7 == SetEntry(d6, "cohere", FALSE)
    IN  SetEntry(d7, "mistral", FALSE)

\* KH_EMBEDDINGS after the module has run.
Embeddings(env) ==
    LET OPENAI_API_KEY == config(env, "OPENAI_API_KEY", OPENAI_DEFAULT)
        IS_OPENAI_DEFAULT == IsOpenaiDefault(OPENAI_API_KEY)
        d1 == IF /\ AzureConfigured(env)
                 /\ Truthy(config(env, "AZURE_OPENAI_EMBEDDINGS_DEPLOYMENT", ""))
              THEN SetEntry(<<>>, "azure", FALSE) ELSE <<>>
        d2 == IF Truthy(OPENAI_API_KEY)
              THEN SetEntry(d1, "openai", IS_OPENAI_DEFAULT) ELSE d1
        d3 == IF Truthy(config(env, "VOYAGE_API_KEY", ""))
              THEN SetEntry(d2, "voyageai", FALSE) ELSE d2
        d4 == IF Truthy(config(env, "LOCAL_MODEL", ""))
              THEN SetEntry(SetEntry(d3, "ollama", FALSE), "fast_embed", FALSE)
              ELSE d3
        d5 == SetEntry(d4, "cohere", FALSE)
        d6 == SetEntry(d5, "google", ~IS_OPENAI_DEFAULT)
    IN  SetEntry(d6, "mistral", FALSE)

\* The settings flowsettings can find: the OpenAI key not set, empty, the
\* placeholder, or a key; each of the other variables not set, empty, or set.
SettingsEnvironments ==
    [OPENAI_API_KEY : {None, "", OPENAI_DEFAULT, "sk-key"},
     AZURE_OPENAI_API_KEY : {None, "azure-key"},
     AZURE_OPENAI_ENDPOINT : {None, "", "https://azure"},
     AZURE_OPENAI_CHAT_DEPLOYMENT : {None, "chat"},
     AZURE_OPENAI_EMBEDDINGS_DEPLOYMENT : {None, "embeddings"},
     VOYAGE_API_KEY : {None, "", "voyage-key"},
     LOCAL_MODEL : {None, "", "qwen2.5:7b"}]

\* The module is about to be imported with some settings; the collection
\* manager is not running.
InitSettings ==
    /\ pc = "settings"
    /\ dotenv \in SettingsEnvironments
    /\ KH_LLMS = <<>> /\ KH_EMBEDDINGS = <<>>
    /\ environ \in {e \in ConfiguredEnvironments : Truthy(e.QDRANT_HOST)}
    /\ host = None /\ port = None /\ user = None /\ password = None
    /\ auth = <<>> /\ menu_shown = FALSE
    /\ remote = {}
    /\ collections = <<>> /\ served = NotServed
    /\ sel_action = ""
    /\ selected = <<>> /\ idx = 0 /\ successful = <<>> /\ failed = <<>>
    /\ shown = <<>> /\ confirmCalls = 0 /\ answeredYes = FALSE /\ accepted = <<>>
    /\ name = <<>> /\ vector_size = 0 /\ distance = "" /\ size_confirmed = FALSE
    /\ confirm = NotAsked
    /\ validated = NotValidated
    /\ exit_code = 0 /\ end_reason = ""
    /\ reqLog = <<>> /\ out = {}
    /\ last = NoPrompt /\ call = NoCall
    /\ selection = <<>> /\ sel_result = Unparsed
    /\ watched = <<>>
    /\ kept = NoConfig /\ entered = NoVectors /\ reported = NoVectors

\* The module body runs from top to bottom once.
LoadSettings ==
    /\ pc = "settings"
    /\ KH_LLMS' = Llms(dotenv)
    /\ KH_EMBEDDINGS' = Embeddings(dotenv)
    /\ pc' = "settings_loaded"
    /\ UNCHANGED <<dotenv, remote, collections, served, sel_action, createVars,
                   batchVars, endVars, reqLog, out, last, call, parseVars,
                   startVars, storeVars>>

NextSettings == LoadSettings

SpecSettings == InitSettings /\ [][NextSettings]_vars

\* ------------------------------------------------------------------ claims

Range(s) == {s[k] : k \in 1..Len(s)}

IsDelete(r) == r.method = "DELETE"
IsPut(r) == r.method = "PUT"

\* The names of the DELETE requests issued in the current action, in order.
DeleteNames == LET d == SelectSeq(reqLog, IsDelete)
               IN  [k \in 1..Len(d) |-> d[k].name]

Occurrences(x, s) == Cardinality({k \in 1..Len(s) : s[k] = x})

CountOf(b, s) == Cardinality({k \in 1..Len(s) : s[k] = b})

\* delete_collections has returned and run has displayed its results.
BatchReturned == pc = "pause" /\ "results" \in out

\* C1: when delete_collections returns, successful and failed are disjoint,
\* together hold exactly the names of the batch, successful holds the names
\* the service accepted and failed the names it rejected (K and N-K entries),
\* and the two lengths add up to N.
C1_BatchPartition ==
    BatchReturned =>
        /\ Range(successful) \cap Range(failed) = {}
        /\ Range(successful) \cup Range(failed) = Range(selected)
        /\ Len(accepted) = Len(selected)
        /\ \A k \in 1..Len(selected) :
               /\ accepted[k] => InSeq(selected[k], successful)
               /\ ~accepted[k] => InSeq(selected[k], failed)
        /\ Len(successful) = CountOf(TRUE, accepted)
        /\ Len(failed) = CountOf(FALSE, accepted)
        /\ Len(successful) + Len(failed) = Len(selected)

\* A batch of three names of which the service accepted the first only.
C1_Witness ==
    /\ BatchReturned
    /\ Len(selected) = 3
    /\ accepted = <<TRUE, FALSE, FALSE>>

\* C2: the DELETE requests of a batch are issued one per name in batch order
\* (at every moment they are a prefix of the batch), and a batch that has
\* returned has issued one for every name, whatever the earlier deletes
\* answered.
C2_FailureNeverAborts ==
    /\ Len(DeleteNames) <= Len(selected)
    /\ DeleteNames = SubSeq(selected, 1, Len(DeleteNames))
    /\ \A n \in Names : Occurrences(n, DeleteNames) <= 1
    /\ BatchReturned => DeleteNames = selected
    /\ pc = "pause" => Len(accepted) \in {0, Len(selected)}

\* A returned batch of three whose first delete was rejected.
C2_Witness ==
    /\ BatchReturned
    /\ Len(selected) = 3
    /\ accepted[1] = FALSE
    /\ DeleteNames = selected

\* C3: a DELETE request is issued only after confirm_deletion listed every
\* name of the batch and the user answered it affirmatively, and
\* confirm_deletion is entered once per batch; without an affirmative answer
\* no DELETE is issued.
C3_ConfirmedBeforeDelete ==
    /\ confirmCalls <= 1
    /\ DeleteNames # <<>> =>
          /\ answeredYes
          /\ confirmCalls = 1
          /\ shown = selected
          /\ Range(DeleteNames) \subseteq Range(shown)
    /\ ~answeredYes => DeleteNames = <<>>

\* Three names deleted after a single confirmation.
C3_Witness ==
    /\ Len(DeleteNames) = 3
    /\ confirmCalls = 1
    /\ answeredYes

NoPutFor(n) == \A k \in 1..Len(reqLog) : ~(IsPut(reqLog[k]) /\ reqLog[k].name = n)

OnlyIndices == /\ Strip(selection) # <<>>
               /\ ~HasBadToken(selection, Len(collections))

\* The indices the line names, token by token.
TypedIndices ==
    [k \in 1..Len(TokensOf(selection)) |-> ParseInt(TokensOf(selection)[k]).val]

FirstAt(x, s) == CHOOSE k \in 1..Len(s) : s[k] = x /\ \A j \in 1..(k - 1) : s[j] # x

\* C5: for a line made only of comma-separated indices within the listing,
\* get_user_selection returns exactly the names at those indices, each once,
\* in the order in which the line first names them.
C5_ValidSelection ==
    (pc = "parsed" /\ OnlyIndices) =>
        LET mapped == [k \in 1..Len(TypedIndices) |->
                          collections[TypedIndices[k]].name]
            got == sel_result.names
        IN  /\ sel_result.kind = "return"
            /\ ~sel_result.none
            /\ Range(got) = Range(mapped)
            /\ \A i, j \in 1..Len(got) : got[i] = got[j] => i = j
            /\ \A i, j \in 1..Len(got) :
                   i < j => FirstAt(got[i], mapped) < FirstAt(got[j], mapped)

\* The line 2,1,2 on a listing of three: two names, the second entry first.
C5_Witness ==
    /\ pc = "parsed"
    /\ Len(collections) = 3
    /\ OnlyIndices
    /\ TypedIndices = <<2, 1, 2>>
    /\ sel_result.names = <<collections[2].name, collections[1].name>>

\* The whole line is the "all" token of the delete action.
IsAllLine == sel_action = "borrar" /\ Lower(Strip(selection)) \in AllWords

\* C6: a line with at least one token that is no number or lies outside
\* 1..len(listing), wherever the token stands, makes get_user_selection
\* return None: no name of the valid tokens is returned.  (A blank line and
\* the delete action's "all" line are handled before the line is split into
\* tokens.)
C6_InvalidSelection ==
    (/\ pc = "parsed"
     /\ Strip(selection) # <<>>
     /\ ~IsAllLine
     /\ HasBadToken(selection, Len(collections)))
    => (sel_result.kind = "return" /\ sel_result.none /\ sel_result.names = <<>>)

\* A bad token between two valid ones.
C6_Witness ==
    /\ pc = "parsed"
    /\ Len(TokensOf(selection)) = 3
    /\ IsIndex(TokensOf(selection)[1], Len(collections))
    /\ ~IsIndex(TokensOf(selection)[2], Len(collections))
    /\ IsIndex(TokensOf(selection)[3], Len(collections))
    /\ sel_result.kind = "return" /\ sel_result.none

\* C7 as stated: an interrupt at a prompt of an action (create, selection,
\* delete confirmation, pause) only aborts the action, the program goes on to
\* the menu; the program ends on an interrupt only at the menu prompt.
C7_InterruptReturnsToMenu ==
    /\ (last.kind = "interrupt" /\ last.prompt # "menu") => pc # "done"
    /\ (pc = "done" /\ last.kind = "interrupt") => last.prompt = "menu"

\* C8 as stated: a remote call that fails (status, error body, timeout,
\* connection error, null fields) is surfaced as a message and the menu loop
\* goes on.
C8_FailureKeepsSession ==
    call.failed => (call.surfaced /\ pc # "done")

ListedPrompts == {"menu", "create_name", "create_size", "create_distance",
                  "select", "confirm_deletion"}

\* C9 as stated: at every prompt a line that is not accepted leads to the
\* same prompt again, never to the action being abandoned or the program
\* ending.
C9_Original ==
    (last.kind \in {"malformed", "blank"} /\ last.prompt \in ListedPrompts)
        => pc = last.prompt

\* C9 amended: a malformed line leads to the same prompt again at the menu,
\* the name, size and distance prompts and the delete confirmation, and so
\* does a blank line at the selection prompt; a selection with a token that
\* is no number or is out of range abandons the action (nothing is selected,
\* run goes to its pause and back to the menu); the program never ends on
\* malformed input.
C9_MalformedInput ==
    (last.kind \in {"malformed", "blank"} /\ last.prompt \in ListedPrompts) =>
        /\ pc # "done"
        /\ (last.prompt # "select" \/ last.kind = "blank") => pc = last.prompt
        /\ (last.prompt = "select" /\ last.kind = "malformed") =>
               (pc = "pause" /\ selected = <<>> /\ DeleteNames = <<>>)

\* A selection with a bad token has abandoned the delete action.
C9_Witness ==
    /\ last = Event("select", TRUE)
    /\ sel_action = "borrar"
    /\ pc = "pause"

\* The DELETE calls that have completed: one answer recorded per call.
CompletedNames == [k \in 1..Len(accepted) |-> DeleteNames[k]]

C11_ExitCodes ==
    /\ (pc = "done" /\ environ.QDRANT_HOST \in {None, ""}) =>
           exit_code # 0 /\ reqLog = <<>> /\ ~menu_shown
    /\ "error_connection" \in out =>
           /\ pc = "done" /\ exit_code # 0
           /\ reqLog = <<GetRoot>> /\ ~menu_shown
    /\ (pc = "done" /\ last.prompt = "menu") => exit_code = 0
    /\ (pc = "done" /\ ~menu_shown) => exit_code # 0
    /\ menu_shown => environ.QDRANT_HOST \notin {None, ""}

C11_Witness ==
    /\ pc = "done" /\ exit_code = 1
    /\ "error_connection" \in out
    /\ reqLog = <<GetRoot>>

\* The username or the password is missing from the environment.
CredentialsAbsent ==
    environ.QDRANT_USER \in {None, ""} \/ environ.QDRANT_PASSWORD \in {None, ""}

\* C20: once the configuration is loaded with a host, missing credentials
\* have led to a warning and not to an exit; every request issued carries
\* the pair (user, password) when both are in the environment and no
\* authentication otherwise; and host, port and authentication are at every
\* later moment the ones read from the environment at startup.
C20_Authentication ==
    /\ (pc = "test_connection" /\ CredentialsAbsent) =>
           "warning_credentials" \in out
    /\ (pc = "done" /\ reqLog = <<>> /\ ~menu_shown) =>
           environ.QDRANT_HOST \in {None, ""}
    /\ \A k \in 1..Len(reqLog) :
           reqLog[k].auth = IF CredentialsAbsent THEN <<>>
                            ELSE <<environ.QDRANT_USER, environ.QDRANT_PASSWORD>>
    /\ (pc # "load_config" /\ environ.QDRANT_HOST \notin {None, ""}) =>
           /\ host = environ.QDRANT_HOST
           /\ port = (IF environ.QDRANT_PORT = None THEN "6333"
                      ELSE environ.QDRANT_PORT)
           /\ auth = IF CredentialsAbsent THEN <<>>
                     ELSE <<environ.QDRANT_USER, environ.QDRANT_PASSWORD>>

C20_Witness ==
    /\ environ.QDRANT_USER = "admin" /\ environ.QDRANT_PASSWORD = None
    /\ menu_shown
    /\ \E k \in 1..Len(reqLog) : IsDelete(reqLog[k]) /\ reqLog[k].auth = <<>>

\* C12: once a list, detail or delete action has left the menu, its first
\* request was a GET /collections of its own, and whatever it displays,
\* indexes or selects from is the answer to that request: a table or an
\* empty-state line only for an answered request, the listing held equal to
\* that answer, and every selected name a name of that answer.
C12_NoCaching ==
    pc # "menu" =>
       /\ reqLog # <<>> /\ reqLog[1] = GetList
       /\ Len(SelectSeq(reqLog, LAMBDA r : r = GetList)) = 1
       /\ (out \cap {"table", "empty_state", "warning_no_collections"} # {}) =>
              ~served.none
       /\ collections = served.list
       /\ pc \in {"select", "confirm_deletion", "delete_next", "delete_wait",
                  "details"} => ~served.none /\ served.list # <<>>
       /\ Range(selected) \subseteq Range(NamesOf(served.list))

C12_Witness ==
    /\ pc = "confirm_deletion"
    /\ reqLog = <<GetList>>
    /\ Len(served.list) >= 2
    /\ selected = NamesOf(served.list)
    /\ Range(NamesOf(served.list)) # remote

\* get_collection_config has returned a configuration and run has sent it.
ConfigReturned == \E k \in 1..Len(reqLog) : IsPut(reqLog[k])

\* C14: a size line that is an integer <= 0 leaves the program at the size
\* prompt; an empty line gives 1536; and the size is a positive integer
\* whenever the flow is past the size prompt, in particular whenever a
\* configuration has been returned.
C14_SizeValidation ==
    /\ \A raw \in SizeInputs :
          /\ (ParseInt(raw).ok /\ ParseInt(raw).val <= 0) =>
                 VectorSize(raw).kind = "again"
          /\ Strip(raw) = <<>> =>
                 VectorSize(raw) = [kind |-> "ok", size |-> 1536]
    /\ (last.prompt = "create_size" /\ last.kind # "interrupt"
           /\ vector_size <= 0) => pc = "create_size"
    /\ (pc \in {"create_confirm_size", "create_distance", "create_confirm"}
           \/ ConfigReturned) => vector_size > 0

\* A negative size was typed and the size prompt is shown again.
C14_Witness ==
    /\ pc = "create_size"
    /\ last = Event("create_size", TRUE)
    /\ vector_size < 0

\* C13: every create request carries exactly the size and the metric held
\* when the configuration was confirmed; the service that keeps what it is
\* sent holds, for a collection this program created, the size and metric
\* the user entered for it; and a detail display of that collection shows
\* that size and that metric.
C13_CreateThenInspect ==
    /\ \A k \in 1..Len(reqLog) :
          IsPut(reqLog[k]) =>
             reqLog[k].body = [vectors |-> [size |-> vector_size,
                                            distance |-> distance]]
    /\ kept # NoConfig => kept.vectors = entered
    /\ reported # NoVectors => reported = entered

\* The scenario of the specification: created with 768 and Euclidean, then
\* inspected from the menu.
C13_Witness ==
    /\ pc = "pause" /\ sel_action = "ver detalles"
    /\ entered = [size |-> 768, distance |-> "Euclidean"]
    /\ reported = [size |-> 768, distance |-> "Euclidean"]

Metrics == {"Cosine", "Euclidean", "Dot"}

\* C15: the body of every PUT request is {vectors: {size, distance}} with a
\* distance among Cosine, Euclidean and Dot and a positive size, and with a
\* size above 65536 only after a yes to the extra confirmation for that
\* size; an empty line at the metric prompt gives Cosine; and any other
\* answer than yes to the extra confirmation leads back to the size prompt.
C15_CreateBody ==
    /\ \A k \in 1..Len(reqLog) :
          IsPut(reqLog[k]) =>
             /\ DOMAIN reqLog[k].body = {"vectors"}
             /\ DOMAIN reqLog[k].body.vectors = {"size", "distance"}
             /\ reqLog[k].body.vectors.distance \in Metrics
             /\ reqLog[k].body.vectors.size > 0
             /\ reqLog[k].body.vectors.size > 65536 => size_confirmed
    /\ \A raw \in DistanceInputs :
          Strip(raw) = <<>> => DistanceOption(raw) = "Cosine"
    /\ (pc \in {"create_distance", "create_confirm"} /\ vector_size > 65536) =>
          size_confirmed
    /\ (last.prompt = "create_confirm_size" /\ last.kind # "interrupt") =>
          pc = (IF size_confirmed THEN "create_distance" ELSE "create_size")

\* A size above the limit was confirmed and sent.
C15_Witness ==
    /\ pc = "pause"
    /\ \E k \in 1..Len(reqLog) :
          IsPut(reqLog[k]) /\ reqLog[k].body.vectors.size > 65536
    /\ size_confirmed

IsDetailFetch(r) == r.method = "GET" /\ r.kind = "item"

\* C16: when the create action ends, a create call that succeeded was
\* followed by exactly one detail fetch, of the created name, as the last
\* request of the action, and the confirmation lines are displayed exactly
\* when that fetch returned the collection; a create call that failed, a
\* configuration that was not confirmed and a create flow that was
\* interrupted are followed by no detail fetch.
C16_VerifyAfterCreate ==
    LET n == Len(reqLog)
        fetches == SelectSeq(reqLog, IsDetailFetch)
        puts == SelectSeq(reqLog, IsPut)
    IN  /\ (pc = "pause" /\ last.prompt = "create_confirm"
               /\ last.kind # "interrupt") =>
              CASE call.op = "detail" ->
                     /\ n >= 2 /\ Len(puts) = 1
                     /\ IsPut(reqLog[n - 1]) /\ reqLog[n - 1].name = name
                     /\ reqLog[n] = GetItem(name)
                     /\ Len(fetches) = 1
                     /\ "created" \in out
                     /\ ("created_info" \in out) <=> ~call.failed
                [] call.op = "create" ->
                     /\ Len(puts) = 1 /\ IsPut(reqLog[n])
                     /\ fetches = <<>>
                     /\ out \cap {"created", "created_info"} = {}
                [] OTHER ->
                     /\ puts = <<>> /\ fetches = <<>>
                     /\ "create_cancelled" \in out
        /\ (last.prompt \in CreatePrompts /\ last.kind = "interrupt") =>
              puts = <<>> /\ fetches = <<>>
        /\ pc \in CreatePrompts => puts = <<>> /\ fetches = <<>>

\* A create succeeded and the detail fetch that followed returned the collection.
C16_Witness ==
    /\ pc = "pause" /\ last.prompt = "create_confirm"
    /\ call = [op |-> "detail", failed |-> FALSE, surfaced |-> FALSE]
    /\ "created_info" \in out
    /\ reqLog[Len(reqLog)] = GetItem(name)

\* The names of the detail fetches issued in the current action, in order.
FetchedNames == LET f == SelectSeq(reqLog, IsDetailFetch)
                IN  [k \in 1..Len(f) |-> f[k].name]

\* C17: in the detail action the detail fetches follow the selection, one
\* per name and in its order; once the action is over without the user
\* having interrupted it, every selected name has had its fetch; and a
\* detail call that gave nothing for one name is reported for that name
\* while the action goes on.
C17_DetailPerItem ==
    sel_action = "ver detalles" =>
       /\ Len(FetchedNames) <= Len(selected)
       /\ FetchedNames = SubSeq(selected, 1, Len(FetchedNames))
       /\ (pc \in {"pause", "done"} /\ end_reason # "interrupt"
              /\ last.kind # "interrupt") => FetchedNames = selected
       /\ (call.op = "detail" /\ call.failed) =>
              "error_no_info" \in out /\ pc # "done"

EmptyStateShown == out \cap {"empty_state", "warning_no_collections"} # {}
ListErrorShown == out \cap {"error_get_collections", "error_no_collections"} # {}

\* C18: in a list, detail or delete action, once the listing has been
\* asked for: an answer that is not a usable listing is followed by the
\* error line and by no empty-state line; a listing with no collection is
\* followed by an empty-state line and by no error line; a listing with
\* collections is followed by neither.
C18_EmptyVersusFailed ==
    served.fetched =>
       /\ served.resp # "ok" =>
              /\ "error_no_collections" \in out /\ ~EmptyStateShown
              /\ collections = <<>> /\ selected = <<>>
       /\ (served.resp = "ok" /\ served.list = <<>>) =>
              /\ EmptyStateShown /\ ~ListErrorShown
              /\ selected = <<>>
       /\ (served.resp = "ok" /\ served.list # <<>>) =>
              ~EmptyStateShown /\ ~ListErrorShown

\* The service holds nothing and the action said so.
C18_Witness ==
    /\ pc = "pause"
    /\ served.fetched /\ served.resp = "ok" /\ served.list = <<>>
    /\ out = {"warning_no_collections"}

\* --------------------------------------------------- the word for "all"

\* The texts that ask for every collection, in the cases the parser is
\* given.
AllTexts == {<<"*">>, <<"a", "l", "l">>, <<"A", "L", "L">>,
             <<"t", "o", "d", "a", "s">>}

\* C19: the word for "all" belongs to the delete action only. Typed at the
\* selection prompt of the delete action, all / * / todas select every
\* collection of the displayed listing, in the order of the listing; typed
\* at the selection prompt of the detail action, the same words are not a
\* selection: the prompt returns with nothing selected.
C19_AllDeleteOnly ==
    (pc = "parsed" /\ selection \in AllTexts) =>
        /\ sel_result.kind = "return"
        /\ IF sel_action = "borrar"
           THEN /\ ~sel_result.none
                /\ sel_result.names =
                       [k \in 1..Len(collections) |-> collections[k].name]
           ELSE sel_result.none /\ sel_result.names = <<>>

\* "todas" was typed in the detail action over a listing of two
\* collections, and nothing was selected.
C19_Witness ==
    /\ pc = "parsed"
    /\ sel_action = "ver detalles"
    /\ selection = <<"t", "o", "d", "a", "s">>
    /\ Len(collections) = 2
    /\ sel_result.none

\* ------------------------------------------- deletes target what was listed

\* The names of the listing that run's GET /collections returned in the
\* current action.
ServedNames == {served.list[j].name : j \in 1..Len(served.list)}

\* C21: every name a DELETE request is issued for is the name of a
\* collection of the listing that the same delete action fetched (its first
\* request) and displayed as a table, and within one batch no name receives
\* more than one DELETE request.
C21_DeleteOnlyListed ==
    \A k \in 1..Len(reqLog) :
        IsDelete(reqLog[k]) =>
            /\ sel_action = "borrar"
            /\ reqLog[1] = GetList /\ k > 1
            /\ served.fetched /\ served.resp = "ok"
            /\ "table" \in out
            /\ reqLog[k].name \in ServedNames
            /\ \A j \in 1..Len(reqLog) :
                   (IsDelete(reqLog[j]) /\ reqLog[j].name = reqLog[k].name)
                       => j = k

\* Two of three listed collections were deleted, the second listed one
\* first, after another client had already dropped the third.
C21_Witness ==
    /\ BatchReturned
    /\ Len(served.list) = 3
    /\ DeleteNames = <<served.list[2].name, served.list[1].name>>
    /\ served.list[3].name \notin remote

\* ------------------------------------------------- no create without consent

\* The PUT requests in a log of requests.
PutsIn(log) == SelectSeq(log, IsPut)

\* C22: a PUT request is issued only by the step in which the user answers
\* the final "Crear coleccion?" prompt affirmatively, so a log that holds a
\* PUT belongs to an action in which that answer was given; every other
\* step taken at a prompt of the create flow (a negative or unrecognised
\* answer to the final prompt, an interrupt at any of the prompts, an answer
\* to an earlier prompt) leaves the log without a PUT and the collections of
\* the service as they were; and the service gains a collection only in a
\* step that issues a PUT.
C22_NoCreateWithoutConsent ==
    [][LET consent == /\ pc = "create_confirm"
                      /\ last' = Event("create_confirm", FALSE)
                      /\ confirm'.asked /\ confirm'.yes
       IN  /\ PutsIn(reqLog') # <<>> => confirm'.asked /\ confirm'.yes
           /\ Len(PutsIn(reqLog')) > Len(PutsIn(reqLog)) =>
                  consent /\ Len(PutsIn(reqLog')) = 1
           /\ (pc \in CreatePrompts /\ ~consent) =>
                  PutsIn(reqLog') = <<>> /\ remote' = remote
           /\ remote' \ remote # {} =>
                  Len(PutsIn(reqLog')) > Len(PutsIn(reqLog))]_vars

\* The final prompt was answered with a line that is neither yes nor no
\* while the service held one collection: the create was cancelled with no
\* PUT issued.
C22_Witness ==
    /\ pc = "pause"
    /\ confirm = [asked |-> TRUE, yes |-> FALSE]
    /\ last = Event("create_confirm", TRUE)
    /\ "create_cancelled" \in out
    /\ PutsIn(reqLog) = <<>>
    /\ Cardinality(remote) = 1 /\ name \notin remote

\* ------------------------------------------------- the outcome of a delete

\* C23: delete_collection reports success for a name if and only if the
\* DELETE came back without an exception, with HTTP status 200 and a
\* decodable body whose result field is true itself; after every other
\* answer (another status, a result that is false, null, absent or merely
\* truthy, an undecodable body, a timeout, a refused connection) an error
\* line is printed and the name is placed in failed; so the name is placed
\* in successful exactly when the service acknowledged its deletion.
C23_DeleteOutcome ==
    call.op = "delete" =>
        LET collection_name == selected[idx]
            response == call.answer
            acknowledged == /\ response.raised = ""
                            /\ response.status_code = 200
                            /\ response.json
                            /\ response.result = "true"
        IN  /\ idx >= 1
            /\ InSeq(collection_name, successful) <=> acknowledged
            /\ InSeq(collection_name, failed) <=> ~acknowledged
            /\ acknowledged => successful[Len(successful)] = collection_name
            /\ ~acknowledged =>
                   /\ failed[Len(failed)] = collection_name
                   /\ "error_delete" \in out
            /\ accepted[idx] <=> acknowledged

\* The second delete of a batch came back with status 200 and the result 1,
\* which is not true itself, after the first was acknowledged: the second
\* name is in failed.
C23_Witness ==
    /\ call.op = "delete"
    /\ idx = 2
    /\ call.answer = [raised |-> "", status_code |-> 200, json |-> TRUE,
                      result |-> "1"]
    /\ successful = <<selected[1]>>
    /\ failed = <<selected[2]>>

\* ------------------------------------------------- the default provider

\* The names of the entries of a provider table that are marked default.
DefaultsOf(table) == {k \in DOMAIN table : table[k].default}

\* C24: once flowsettings has run, whatever the settings were, exactly one
\* entry of KH_LLMS and exactly one entry of KH_EMBEDDINGS is marked
\* default: the openai entry when an OpenAI key is set that is neither
\* empty nor the placeholder, the google entry otherwise.
C24_OneDefaultProvider ==
    pc = "settings_loaded" =>
        LET key == dotenv.OPENAI_API_KEY
            real == key \notin {None, "", "<YOUR_OPENAI_KEY>"}
            expected == IF real THEN {"openai"} ELSE {"google"}
        IN  /\ Cardinality(DefaultsOf(KH_LLMS)) = 1
            /\ Cardinality(DefaultsOf(KH_EMBEDDINGS)) = 1
            /\ DefaultsOf(KH_LLMS) = expected
            /\ DefaultsOf(KH_EMBEDDINGS) = expected

\* The OpenAI key is not set while Azure, Voyage and a local model are all
\* configured: every optional entry is present, the openai entry carries
\* the placeholder, and google is the default of both tables.
C24_Witness ==
    /\ pc = "settings_loaded"
    /\ dotenv.OPENAI_API_KEY = None
    /\ {"azure", "openai", "ollama", "google"} \subseteq DOMAIN KH_LLMS
    /\ {"azure", "openai", "voyageai", "fast_embed", "google"}
           \subseteq DOMAIN KH_EMBEDDINGS
    /\ DefaultsOf(KH_LLMS) = {"google"}
    /\ DefaultsOf(KH_EMBEDDINGS) = {"google"}

====
